---- MODULE Spec2Model ----
(* A model of lambda_function.py: the Lambda handler that validates a       *)
(* request, runs the two-call Bedrock conversation and returns the code.    *)
(*                                                                          *)
(* Python dictionaries are functions whose DOMAIN is the set of keys that   *)
(* are present.  Other Python values are records tagged with their type.    *)
(* A call that can raise yields a record saying whether it returned or      *)
(* raised.                                                                  *)
EXTENDS Integers, Sequences, FiniteSets, TLC

VARIABLES
    pc,        \* position of the invocation: idle, call1, call2, done, crashed
    event,     \* the event lambda_handler was invoked with
    body,      \* the conversation list built by generate_code_using_bedrock
    calls,     \* the `messages` argument of every _call_bedrock call, in order
    outcomes,  \* what bedrock_runtime.converse did on each of those calls
    result,    \* the value lambda_handler returned
    stdout,    \* the lines printed
    xmsg,      \* argument of a direct _extract_text call
    xret       \* what that _extract_text call did

vars == <<pc, event, body, calls, outcomes, result, stdout, xmsg, xret>>

(* Bounds *)

\* longest content list of a message handed to _extract_text directly
MaxBlocks == 3
\* longest content list of a reply of the inference service
MaxReplyBlocks == 2

(* Values *)

PROMPT_CODE_SECTION_DELIMITER == "\n###\n"

EmptyDict == [k \in {} |-> ""]

Restrict(d, K) == [k \in K |-> d[k]]

\* every dictionary made of some of the items of d
SubDicts(d) == {Restrict(d, K) : K \in SUBSET DOMAIN d}

SeqsUpTo(S, n) == UNION {[1..k -> S] : k \in 0..n}

\* the texts a content block carries
Texts == {"", "1. split 2. reverse", "def reverse(s): return s[::-1]"}

\* a content block that is a dictionary: empty, a tool-use block, or a text
\* block
BlockDicts ==
    {EmptyDict, [toolUse |-> "tool"]} \cup {[text |-> t] : t \in Texts}

DictBlock(d) == [type |-> "dict", dict |-> d]

\* a content block that is not a dictionary (a bare string)
NonDictBlock == [type |-> "str", dict |-> EmptyDict]

Blocks == {DictBlock(d) : d \in BlockDicts} \cup {NonDictBlock}

ListValue(items) == [type |-> "list", items |-> items]

NoneValue == [type |-> "NoneType", items |-> <<>>]

IntValue == [type |-> "int", items |-> <<>>]

\* a two-character string: iterating it yields its characters, themselves
\* strings
StrValue == [type |-> "str", items |-> <<NonDictBlock, NonDictBlock>>]

\* the values `content` takes in a message of the inference service
Contents(n) ==
    {ListValue(s) : s \in SeqsUpTo(Blocks, n)} \cup {NoneValue, IntValue, StrValue}

\* reply messages: `content` may be absent
Messages(n) ==
    UNION {SubDicts([role |-> "assistant", content |-> c]) \ {EmptyDict, [content |-> c]}
             : c \in Contents(n)}

(* Exceptions and outcomes *)

Exc(type, msg) == [type |-> type, msg |-> msg]

NoExc == Exc("", "")

\* str(KeyError(k)) is the repr of the key
KeyError(k) == Exc("KeyError", "'" \o k \o "'")

\* raised by iterating a value that is not iterable
NotIterable(v) == Exc("TypeError", "'" \o v.type \o "' object is not iterable")

\* classes derived from Exception, the ones `except Exception` catches
ExceptionSubclasses == {"ClientError", "ReadTimeoutError", "KeyError", "TypeError"}

\* the class name in place of the description
Str_TypeName(e) == e.type

\* str(e)
Str(e) == e.msg

Return(v) == [kind |-> "return", value |-> v, exc |-> NoExc]

Raise(e) == [kind |-> "raise", value |-> "", exc |-> e]


(* _extract_text, lines 17-29 *)

\* isinstance(b, dict) and "text" in b
HasText(b) == b.type = "dict" /\ "text" \in DOMAIN b.dict

\* the text of the last block that has one: a scan that does not stop at
\* the first match
FirstText_Last(items) ==
    LET I == {i \in 1..Len(items) : HasText(items[i])}
    IN  IF I = {} THEN ""
        ELSE items[CHOOSE i \in I : \A j \in I : j <= i].dict["text"]

\* next((b["text"] for b in content if ...), "")
RECURSIVE FirstText(_)
FirstText(items) ==
    IF items = <<>> THEN ""
    ELSE IF HasText(Head(items)) THEN Head(items).dict["text"]
    ELSE FirstText(Tail(items))

\* message.get("content", [])
GetContent(message) ==
    IF "content" \in DOMAIN message THEN message["content"] ELSE ListValue(<<>>)

ExtractText(message) ==
    LET content == GetContent(message)
    IN  IF content.type \in {"list", "str"}
        THEN Return(FirstText(content.items))
        ELSE Raise(NotIterable(content))

(* lambda_handler, lines 48-91 *)

\* json.dumps({key: value}) for a string value that needs no escaping
JsonDumps(key, value) == "{\"" \o key \o "\": \"" \o value \o "\"}"

Response(statusCode, bodyText) == [statusCode |-> statusCode, body |-> bodyText]

NoResult == Response(0, "")

MissingParameter(name) ==
    Response(400, JsonDumps("error", "Missing required parameter: " \o name))

\* the two checks in the opposite order
ValidateEvent_Swapped(e) ==
    IF "code_language" \notin DOMAIN e THEN MissingParameter("code_language")
    ELSE IF "message" \notin DOMAIN e THEN MissingParameter("message")
    ELSE NoResult

\* the second check reporting the first check's parameter
ValidateEvent_SameName(e) ==
    IF "message" \notin DOMAIN e THEN MissingParameter("message")
    ELSE IF "code_language" \notin DOMAIN e THEN MissingParameter("message")
    ELSE NoResult

\* lines 66-75: the early return, NoResult when the handler goes on
ValidateEvent(e) ==
    IF "message" \notin DOMAIN e THEN MissingParameter("message")
    ELSE IF "code_language" \notin DOMAIN e THEN MissingParameter("code_language")
    ELSE NoResult

\* an except clause that catches ClientError only
Catches_ClientErrorOnly(e) == e.type = "ClientError"

\* line 86: except Exception
Catches(e) == e.type \in ExceptionSubclasses

\* the except clause answering with the client-error status
HandlerExcept_400(e) == Response(400, JsonDumps("error", Str(e)))

\* lines 88-91
HandlerExcept(e) == Response(500, JsonDumps("error", Str(e)))

\* line 87
HandlerPrint(e) == "Error in lambda_handler: " \o Str(e)

\* lines 82-85
Success(generated_code) == Response(200, JsonDumps("code", generated_code))

(* generate_code_using_bedrock, lines 93-138 *)

\* lines 110-114
TaskAnalysisPrompt(message, code_language) ==
    "Analyze the following request and determine the necessary steps to accomplish it in "
        \o code_language \o ":"
        \o PROMPT_CODE_SECTION_DELIMITER \o message \o PROMPT_CODE_SECTION_DELIMITER
        \o "Respond only with a numbered list of steps, nothing else."

\* lines 116-120
CodeGenerationPrompt(code_language) ==
    "Generate the " \o code_language \o " code according to the previously defined steps."
        \o "Take your time to ensure accuracy and completeness."
        \o "Respond only with the generated code, nothing else."

\* {"role": "user", "content": [{"text": prompt}]}
UserTurn(prompt) ==
    [role |-> "user", content |-> ListValue(<<DictBlock([text |-> prompt])>>)]

\* lines 122-124
InitialBody(message, code_language) ==
    <<UserTurn(TaskAnalysisPrompt(message, code_language))>>

\* what bedrock_runtime.converse does on one call
Returned(response) == [kind |-> "return", exc |-> NoExc, response |-> response]

Raised(e) == [kind |-> "raise", exc |-> e, response |-> EmptyDict]

\* the service rejecting the call, and the transport giving up
ServiceErrors ==
    { Exc("ClientError",
          "An error occurred (ThrottlingException) when calling the Converse operation: Too many requests"),
      Exc("ReadTimeoutError",
          "Read timeout on endpoint URL: https://bedrock-runtime.eu-north-1.amazonaws.com") }

\* responses: `output` and `message` may be absent
Responses(n) ==
    {EmptyDict, [output |-> EmptyDict]}
        \cup {[output |-> [message |-> m]] : m \in Messages(n)}

ServiceOutcomes(n) ==
    {Raised(e) : e \in ServiceErrors} \cup {Returned(r) : r \in Responses(n)}

\* lines 127-128 and 132-133: the exception raised by the call or by
\* response["output"]["message"], NoExc when there is none
ReplyError(o) ==
    IF o.kind = "raise" THEN o.exc
    ELSE IF "output" \notin DOMAIN o.response THEN KeyError("output")
    ELSE IF "message" \notin DOMAIN o.response["output"] THEN KeyError("message")
    ELSE NoExc

\* response["output"]["message"]
ReplyMessage(o) == o.response["output"]["message"]

\* the reply rebuilt from its text instead of appended as returned
ExtendBody_TextOnly(conversation, reply, code_language) ==
    conversation
        \o << [role |-> "assistant",
               content |-> ListValue(<<DictBlock([text |-> FirstText(GetContent(reply).items)])>>)],
              UserTurn(CodeGenerationPrompt(code_language)) >>

\* lines 129-130
ExtendBody(conversation, reply, code_language) ==
    conversation \o <<reply, UserTurn(CodeGenerationPrompt(code_language))>>

\* a failed second call answered with the text of the first reply
SecondStep_Partial(conversation, o) ==
    IF ReplyError(o) # NoExc
    THEN IF ExtractText(conversation[2]).kind = "return"
         THEN ExtractText(conversation[2])
         ELSE Raise(ReplyError(o))
    ELSE ExtractText(ReplyMessage(o))

\* lines 132-135: the code returned, or the exception raised
SecondStep(conversation, o) ==
    IF ReplyError(o) # NoExc
    THEN Raise(ReplyError(o))
    ELSE ExtractText(ReplyMessage(o))

\* lines 136-137: the line printed by `except ClientError`
GeneratePrint(e) ==
    IF e.type = "ClientError"
    THEN <<"Error during Bedrock interaction: " \o Str(e)>>
    ELSE <<>>

(* The invocation *)

NotCalled == [kind |-> "none", value |-> "", exc |-> NoExc]

\* the events: any of the keys may be absent
Events ==
    UNION {SubDicts([message |-> "reverse a string", code_language |-> l, requestId |-> "r1"])
             : l \in {"Python", "Go"}}

Init ==
    /\ pc = "idle"
    /\ event = EmptyDict
    /\ body = <<>>
    /\ calls = <<>>
    /\ outcomes = <<>>
    /\ result = NoResult
    /\ stdout = <<>>
    /\ xmsg = [role |-> "assistant"]
    /\ xret = NotCalled

\* an exception leaves generate_code_using_bedrock (line 138) and reaches
\* the except clause of lambda_handler (lines 86-91)
Fail(e) ==
    IF Catches(e)
    THEN /\ result' = HandlerExcept(e)
         /\ stdout' = stdout \o GeneratePrint(e) \o <<HandlerPrint(e)>>
         /\ pc' = "done"
    ELSE /\ result' = NoResult
         /\ stdout' = stdout \o GeneratePrint(e)
         /\ pc' = "crashed"

\* lambda_handler is invoked: lines 64-80 and 110-127, up to the first call
LambdaHandler(e) ==
    /\ pc = "idle"
    /\ event' = e
    /\ IF ValidateEvent(e) # NoResult
       THEN /\ result' = ValidateEvent(e)
            /\ pc' = "done"
            /\ UNCHANGED <<body, calls>>
       ELSE /\ body' = InitialBody(e["message"], e["code_language"])
            /\ calls' = Append(calls, body')
            /\ pc' = "call1"
            /\ UNCHANGED result
    /\ UNCHANGED <<outcomes, stdout, xmsg, xret>>

\* the first call ends: lines 127-132, up to the second call
FirstReply(o) ==
    /\ pc = "call1"
    /\ outcomes' = Append(outcomes, o)
    /\ IF ReplyError(o) # NoExc
       THEN /\ Fail(ReplyError(o))
            /\ UNCHANGED <<body, calls>>
       ELSE /\ body' = ExtendBody(body, ReplyMessage(o), event["code_language"])
            /\ calls' = Append(calls, body')
            /\ pc' = "call2"
            /\ UNCHANGED <<result, stdout>>
    /\ UNCHANGED <<event, xmsg, xret>>

\* the second call ends: lines 132-138 and 82-91
SecondReply(o) ==
    /\ pc = "call2"
    /\ outcomes' = Append(outcomes, o)
    /\ IF SecondStep(body, o).kind = "return"
       THEN /\ result' = Success(SecondStep(body, o).value)
            /\ pc' = "done"
            /\ UNCHANGED stdout
       ELSE Fail(SecondStep(body, o).exc)
    /\ UNCHANGED <<event, body, calls, xmsg, xret>>

Next ==
    \/ \E e \in Events : LambdaHandler(e)
    \/ \E o \in ServiceOutcomes(MaxReplyBlocks) : FirstReply(o)
    \/ \E o \in ServiceOutcomes(MaxReplyBlocks) : SecondReply(o)

Spec == Init /\ [][Next]_vars

(* _extract_text called on its own *)

InitExtract ==
    /\ pc = "idle"
    /\ event = EmptyDict
    /\ body = <<>>
    /\ calls = <<>>
    /\ outcomes = <<>>
    /\ result = NoResult
    /\ stdout = <<>>
    /\ xmsg \in Messages(MaxBlocks)
    /\ xret = NotCalled

CallExtractText ==
    /\ xret = NotCalled
    /\ xret' = ExtractText(xmsg)
    /\ UNCHANGED <<pc, event, body, calls, outcomes, result, stdout, xmsg>>

NextExtract == CallExtractText

SpecExtract == InitExtract /\ [][NextExtract]_vars

(* Properties *)

\* the body texts, written out as json.dumps prints them
ErrorBody(description) == "{\"error\": \"" \o description \o "\"}"

CodeBody(code) == "{\"code\": \"" \o code \o "\"}"

Invoked == pc # "idle"

\* the service answered call i with a response that holds a message
Answered(i) ==
    /\ Len(outcomes) >= i
    /\ outcomes[i].kind = "return"
    /\ "output" \in DOMAIN outcomes[i].response
    /\ "message" \in DOMAIN outcomes[i].response["output"]

\* the service raised on call i
Failed(i) == Len(outcomes) >= i /\ outcomes[i].kind = "raise"

Reply(i) == outcomes[i].response["output"]["message"]

\* the blocks of a message: none when content is absent or is no list
BlocksOf(message) ==
    IF "content" \in DOMAIN message /\ message["content"].type = "list"
    THEN message["content"].items
    ELSE <<>>

\* the positions of the text-bearing blocks
TextBearing(items) ==
    {i \in 1..Len(items) : items[i].type = "dict" /\ "text" \in DOMAIN items[i].dict}

\* the text of the first text-bearing block, the empty string without one
FirstTextBearing(message) ==
    LET items == BlocksOf(message)
        T == TextBearing(items)
    IN  IF T = {} THEN ""
        ELSE items[CHOOSE i \in T : \A j \in T : i <= j].dict["text"]

\* C1: every event without `message`, whatever else it holds, is answered
\* with status 400 and the body {"error": "Missing required parameter: message"}
C1_MissingMessage ==
    (Invoked /\ "message" \notin DOMAIN event)
        => /\ pc = "done"
           /\ result.statusCode = 400
           /\ result.body = "{\"error\": \"Missing required parameter: message\"}"

C1_Witness ==
    /\ pc = "done"
    /\ DOMAIN event = {"requestId"}
    /\ result.statusCode = 400

\* C2 as stated: every event without `code_language`, with or without
\* `message`, is answered with status 400 and an error naming code_language
C2_MissingCodeLanguage ==
    (Invoked /\ "code_language" \notin DOMAIN event)
        => /\ pc = "done"
           /\ result.statusCode = 400
           /\ result.body = "{\"error\": \"Missing required parameter: code_language\"}"

\* C2 amended: every event without `code_language` is answered with status
\* 400; the error names code_language when `message` is present and names
\* message when `message` is absent too
C2_MissingCodeLanguageAmended ==
    (Invoked /\ "code_language" \notin DOMAIN event)
        => /\ pc = "done"
           /\ result.statusCode = 400
           /\ result.body =
                IF "message" \in DOMAIN event
                THEN "{\"error\": \"Missing required parameter: code_language\"}"
                ELSE "{\"error\": \"Missing required parameter: message\"}"

C2_Witness ==
    /\ pc = "done"
    /\ "message" \in DOMAIN event
    /\ "code_language" \notin DOMAIN event
    /\ result.body = ErrorBody("Missing required parameter: code_language")

\* C3: an invocation that ends with status 400 made no call to the
\* inference service
C3_NoCallOnValidationError ==
    result.statusCode = 400 => (calls = <<>> /\ outcomes = <<>>)

C3_Witness ==
    /\ pc = "done"
    /\ result.statusCode = 400
    /\ calls = <<>>
    /\ DOMAIN event = {"message"}

\* C4: when the service answers, the routine makes exactly two calls: the
\* first with the single user turn of the step-decomposition prompt, the
\* second with that turn, the first reply as returned, and the user turn of
\* the code-generation prompt
C4_TwoCallsInOrder ==
    /\ Len(calls) <= 2
    /\ Len(calls) >= 1 =>
          /\ calls[1] = <<[role |-> "user",
                           content |-> ListValue(<<DictBlock(
                               [text |-> TaskAnalysisPrompt(event["message"],
                                                            event["code_language"])])>>)]>>
          /\ Len(outcomes) = 0 => Len(calls) = 1
    /\ Answered(1) =>
          /\ Len(calls) = 2
          /\ Len(calls[2]) = 3
          /\ calls[2][1] = calls[1][1]
          /\ calls[2][2] = Reply(1)
          /\ calls[2][3] = [role |-> "user",
                            content |-> ListValue(<<DictBlock(
                                [text |-> CodeGenerationPrompt(event["code_language"])])>>)]

C4_Witness ==
    /\ pc = "done"
    /\ Answered(1)
    /\ Answered(2)
    /\ Len(BlocksOf(Reply(1))) = 2
    /\ Reply(1) # Reply(2)
    /\ result.statusCode = 200

\* C5: when the service raises on the first call there is no second call
\* and the handler answers 500 with the description of that failure
C5_FirstCallFails ==
    Failed(1) =>
        /\ pc = "done"
        /\ Len(calls) = 1
        /\ Len(outcomes) = 1
        /\ result.statusCode = 500
        /\ result.body = ErrorBody(outcomes[1].exc.msg)

C5_Witness ==
    /\ pc = "done"
    /\ Failed(1)
    /\ outcomes[1].exc.type = "ClientError"
    /\ Len(stdout) = 2

\* C6: status 200 is returned only when both calls completed; when a call
\* fails the answer is 500 with the error of that failure alone, and no
\* code, in particular not the text of the first reply
C6_NoPartialSuccess ==
    /\ result.statusCode = 200 =>
          (Len(outcomes) = 2 /\ Answered(1) /\ Answered(2))
    /\ \A i \in 1..Len(outcomes) :
          Failed(i) =>
             /\ pc = "done"
             /\ Len(outcomes) = i
             /\ result.statusCode = 500
             /\ result.body = ErrorBody(outcomes[i].exc.msg)
             /\ \A t \in Texts : result.body # CodeBody(t)

C6_Witness ==
    /\ pc = "done"
    /\ Answered(1)
    /\ FirstTextBearing(Reply(1)) = "1. split 2. reverse"
    /\ Failed(2)
    /\ result.statusCode = 500

\* C7: for a message whose content is a list of blocks, or is absent,
\* _extract_text returns the text of the first block that has a text field,
\* and the empty string when no block has one
C7_FirstTextBlock ==
    (xret # NotCalled
        /\ ("content" \in DOMAIN xmsg => xmsg["content"].type = "list"))
        => /\ xret.kind = "return"
           /\ xret.value = FirstTextBearing(xmsg)

C7_Witness ==
    /\ xret # NotCalled
    /\ Len(BlocksOf(xmsg)) = 3
    /\ TextBearing(BlocksOf(xmsg)) = {2, 3}
    /\ BlocksOf(xmsg)[2].dict["text"] # BlocksOf(xmsg)[3].dict["text"]
    /\ xret.value = BlocksOf(xmsg)[2].dict["text"]

\* C8: _extract_text never raises, whatever the content of the message:
\* absent, empty, null, not a list, or holding blocks that are no
\* dictionaries
C8_NeverThrows ==
    xret # NotCalled => xret.kind = "return"

\* C9: when both fields are present and both calls complete, the handler
\* answers 200 with the text of the first text-bearing block of the second
\* reply as the code, the empty string when that reply has none
C9_CodeOfSecondReply ==
    (Answered(1) /\ Answered(2))
        => /\ pc = "done"
           /\ result.statusCode = 200
           /\ result.body = CodeBody(FirstTextBearing(Reply(2)))

\* C10: no exception leaves lambda_handler; its result has status 200 with
\* a code, or 400 or 500 with an error, and every failure after validation
\* is answered 500 with the description of the failure
C10_TotalAtBoundary ==
    /\ pc # "crashed"
    /\ pc = "done" =>
          \/ /\ result.statusCode = 200
             /\ \E t \in Texts : result.body = CodeBody(t)
          \/ /\ result.statusCode = 400
             /\ \E n \in {"message", "code_language"} :
                   result.body = ErrorBody("Missing required parameter: " \o n)
          \/ /\ result.statusCode = 500
             /\ calls # <<>>
             /\ \E d \in {e.msg : e \in ServiceErrors}
                        \cup {"'output'", "'message'",
                              "'NoneType' object is not iterable",
                              "'int' object is not iterable"} :
                   result.body = ErrorBody(d)
    /\ (pc = "done" /\ outcomes # <<>>) =>
          LET last == outcomes[Len(outcomes)]
          IN  /\ last.kind = "raise" =>
                    result = Response(500, ErrorBody(last.exc.msg))
              /\ (last.kind = "return" /\ "output" \notin DOMAIN last.response) =>
                    result = Response(500, ErrorBody("'output'"))
              /\ (last.kind = "return" /\ "output" \in DOMAIN last.response
                    /\ "message" \notin DOMAIN last.response["output"]) =>
                    result = Response(500, ErrorBody("'message'"))

C10_Witness ==
    /\ pc = "done"
    /\ Len(outcomes) = 2
    /\ outcomes[2] = Returned([output |-> EmptyDict])
    /\ result.statusCode = 500

====
